---- MODULE Spec2Model ----
(***************************************************************************)
(* A model of the occupational-distance dashboard: the two loaded distance *)
(* tables (dashboard_helper_funcs.load_soc_dfs), the four query functions  *)
(* and the two lookups of dashboard_helper_funcs.py, and the Tab 3 handler *)
(* of app.py.  A data frame is a sequence of rows in row order, a row is a *)
(* function from column names to cell values.                              *)
(***************************************************************************)
EXTENDS Integers, Sequences, FiniteSets, TLC

VARIABLES df_soc4, df_soc6, result

vars == <<df_soc4, df_soc6, result>>

-----------------------------------------------------------------------------
(* Bounds of the model.                                                    *)

\* Rows the two loaded tables hold together.
MaxRows == 2
\* Largest K handed to the ranking.
MaxK == 2

\* The upper end of the K slider of Tab 3.
KSliderMax == 25

\* Calendar years of the rows and of the year-range arguments.
Years == {2018, 2019}
\* The printed forms of the classification codes, in ascending order (for
\* these the order of the strings and of the numbers agree).
CodeTexts == <<"15", "17">>
\* The titles a table may carry.
TitleTexts == <<"Computer", "Architecture">>

-----------------------------------------------------------------------------
(* Python values.  A code or title cell, and a key handed to a function,   *)
(* is a str, an int or None; kind tells them apart, so that the str "15"   *)
(* and the int 15 differ as they do under Python's ==.                     *)

Str(t) == [kind |-> "str", text |-> t]
None == [kind |-> "None", text |-> ""]

\* A float: a rational num/den in lowest terms, or NaN.
RECURSIVE Gcd(_, _)
Gcd(a, b) == IF b = 0 THEN a ELSE Gcd(b, a % b)

Float(n, d) ==
    LET g == Gcd(n, d)
    IN  IF g = 0 THEN [nan |-> FALSE, num |-> 0, den |-> 1]
        ELSE [nan |-> FALSE, num |-> n \div g, den |-> d \div g]

NaN == [nan |-> TRUE, num |-> 0, den |-> 1]

\* a < b on floats that are not NaN.
FloatLess(a, b) == a.num * b.den < b.num * a.den

\* The position of a code's printed form in CodeTexts.
Rank(t) == CHOOSE i \in 1..Len(CodeTexts) : CodeTexts[i] = t

\* Python's a < b on two codes of one kind.
PyLess(a, b) == Rank(a.text) < Rank(b.text)

\* A slip: no canonical ordering, the first code is taken as the smaller.
PyMinFirst(a, b) == a

\* Python's min(a, b) and max(a, b): the first argument unless the second
\* is strictly smaller (larger).
PyMin(a, b) == IF PyLess(b, a) THEN b ELSE a
PyMax(a, b) == IF PyLess(a, b) THEN b ELSE a

\* Python's truth value of an optional string.
Truthy(v) == v.kind # "None" /\ v.text # ""

-----------------------------------------------------------------------------
(* Column names.                                                           *)

Soc1Colname(soc_mode) ==
    IF soc_mode = "SOC4" THEN "SOC4_1_Code" ELSE "SOC6_1_Code"
Soc2Colname(soc_mode) ==
    IF soc_mode = "SOC4" THEN "SOC4_2_Code" ELSE "SOC6_2_Code"
Soc1TitleCol(soc_mode) ==
    IF soc_mode = "SOC4" THEN "SOC4_1_Title" ELSE "SOC6_1_Title"
Soc2TitleCol(soc_mode) ==
    IF soc_mode = "SOC4" THEN "SOC4_2_Title" ELSE "SOC6_2_Title"

\* f"{distance_type}_Distance"
DistanceCol(distance_type) ==
    IF distance_type = "Euclidean" THEN "Euclidean_Distance"
    ELSE "Cosine_Distance"

\* df = df_soc4 if soc_mode == "SOC4" else df_soc6
SelectDf(d4, d6, soc_mode) == IF soc_mode = "SOC4" THEN d4 ELSE d6

-----------------------------------------------------------------------------
(* Data-frame operations.                                                  *)

\* Boolean masks, one truth value for each row: df[col] == v, df[col] >= v,
\* df[col] <= v, a & b, a | b.
ColEq(df, col, v) == [i \in 1..Len(df) |-> df[i][col] = v]
ColGe(df, col, v) == [i \in 1..Len(df) |-> df[i][col] >= v]
ColLe(df, col, v) == [i \in 1..Len(df) |-> df[i][col] <= v]
MaskAnd(a, b) == [i \in 1..Len(a) |-> a[i] /\ b[i]]
MaskOr(a, b) == [i \in 1..Len(a) |-> a[i] \/ b[i]]

\* df[mask]: the rows whose mask value is true, in row order.
MaskRows(df, mask) ==
    LET Kept[n \in 0..Len(df)] ==
            IF n = 0 THEN <<>>
            ELSE IF mask[n] THEN Append(Kept[n - 1], df[n]) ELSE Kept[n - 1]
    IN  Kept[Len(df)]

\* The values of one column, in row order.
Column(df, col) == [i \in 1..Len(df) |-> df[i][col]]

\* The rows of df in the order p, a permutation of its positions.
Reorder(df, p) == [i \in 1..Len(df) |-> df[p[i]]]

Perms(n) == {p \in [1..n -> 1..n] : \A i, j \in 1..n : i # j => p[i] # p[j]}

\* Whether the int column col of df is in sorted order.
IsSorted(df, col, ascending) ==
    \A i \in 1..(Len(df) - 1) :
        IF ascending THEN df[i][col] <= df[i + 1][col]
        ELSE df[i][col] >= df[i + 1][col]

\* A slip: the frame is returned in row order, unsorted.
SortValuesUnsorted(df, col, ascending) == {df}

\* df.sort_values(col, ascending=ascending): the frames it may return.  The
\* call names no kind, so pandas sorts with its default, quicksort, which is
\* not stable: rows with equal keys come out in an order the build decides.
SortValues(df, col, ascending) ==
    {s \in {Reorder(df, p) : p \in Perms(Len(df))} : IsSorted(s, col, ascending)}

\* A slip: one row too few.
DfHeadShort(df, k) == SubSeq(df, 1, IF k - 1 < Len(df) THEN k - 1 ELSE Len(df))

\* df.head(k) is df.iloc[:k]: the first k rows, and for a negative k all
\* rows but the last -k.
DfHead(df, k) ==
    LET n == Len(df)
        stop == IF k >= 0 THEN (IF k < n THEN k ELSE n)
                ELSE (IF n + k > 0 THEN n + k ELSE 0)
    IN  SubSeq(df, 1, stop)

\* df[cols]: the listed columns of every row.
Project(df, cols) == [i \in 1..Len(df) |-> [c \in cols |-> df[i][c]]]

\* Series.min() and Series.max() of a column of distances (floats): NaN for
\* an empty series.
SeriesMin(s) ==
    IF Len(s) = 0 THEN NaN
    ELSE CHOOSE m \in {s[i] : i \in 1..Len(s)} :
            \A i \in 1..Len(s) : ~FloatLess(s[i], m)
SeriesMax(s) ==
    IF Len(s) = 0 THEN NaN
    ELSE CHOOSE m \in {s[i] : i \in 1..Len(s)} :
            \A i \in 1..Len(s) : ~FloatLess(m, s[i])

\* A column of distances as floats.
FloatColumn(df, col) == [i \in 1..Len(df) |-> Float(df[i][col], 1)]

-----------------------------------------------------------------------------
(* The loaded tables.                                                      *)

Modes == {"SOC4", "SOC6"}
DistanceTypes == {"Euclidean", "Cosine"}
\* The distance values of a row.
Distances == {0, 1}
\* The Cosine value drawn with a Euclidean one: the other distance value.
Other(e) == 1 - e

\* A row of the table of soc_mode.  The two distance columns of a row are
\* drawn together: the Cosine value is the other one of the two values, so
\* the two metrics order the rows differently.
Row(soc_mode, year, c1, c2, t1, t2, e) ==
    IF soc_mode = "SOC4"
    THEN [year |-> year, SOC4_1_Code |-> c1, SOC4_1_Title |-> t1,
          SOC4_2_Code |-> c2, SOC4_2_Title |-> t2,
          Euclidean_Distance |-> e, Cosine_Distance |-> Other(e)]
    ELSE [year |-> year, SOC6_1_Code |-> c1, SOC6_1_Title |-> t1,
          SOC6_2_Code |-> c2, SOC6_2_Title |-> t2,
          Euclidean_Distance |-> e, Cosine_Distance |-> Other(e)]

CodeIdx == 1..Len(CodeTexts)
TitleIdx == 1..Len(TitleTexts)

\* The code cells of one kind ("str" or "int").
CodeCell(kind, i) == [kind |-> kind, text |-> CodeTexts[i]]

\* The rows a table of soc_mode may hold: the pair is in canonical order
\* (code 1 <= code 2).  With freeTitles the two titles are any titles,
\* otherwise each code carries its own title.
RowSet(soc_mode, kind, freeTitles) ==
    {Row(soc_mode, y, CodeCell(kind, i), CodeCell(kind, j),
         Str(TitleTexts[a]), Str(TitleTexts[b]), e) :
        <<y, i, j, a, b, e>> \in
            {x \in Years \X CodeIdx \X CodeIdx \X TitleIdx \X TitleIdx \X Distances :
                /\ x[2] <= x[3]
                /\ freeTitles \/ (x[4] = ((x[2] - 1) % Len(TitleTexts)) + 1
                                  /\ x[5] = ((x[3] - 1) % Len(TitleTexts)) + 1)
                /\ freeTitles => x[6] = 0}}

\* The files are deduplicated: a year and a pair name at most one row.
Deduplicated(df, soc_mode) ==
    \A i, j \in 1..Len(df) :
        (/\ df[i].year = df[j].year
         /\ df[i][Soc1Colname(soc_mode)] = df[j][Soc1Colname(soc_mode)]
         /\ df[i][Soc2Colname(soc_mode)] = df[j][Soc2Colname(soc_mode)]) => i = j

RECURSIVE SeqsUpTo(_, _)
SeqsUpTo(S, n) ==
    IF n = 0 THEN {<<>>}
    ELSE LET shorter == SeqsUpTo(S, n - 1)
         IN  shorter \cup {Append(s, x) : s \in {t \in shorter : Len(t) = n - 1}, x \in S}

\* The tables pd.read_parquet may return for soc_mode, of at most n rows.
Tables(soc_mode, kind, freeTitles, n) ==
    {df \in SeqsUpTo(RowSet(soc_mode, kind, freeTitles), n) : Deduplicated(df, soc_mode)}

\* load_soc_dfs: both tables, of MaxRows rows together, their code columns
\* of one kind.
Loaded(kinds, freeTitles) ==
    \E kind \in kinds, n4 \in 0..MaxRows :
        /\ df_soc4 \in Tables("SOC4", kind, freeTitles, n4)
        /\ Len(df_soc4) = n4
        /\ df_soc6 \in Tables("SOC6", kind, freeTitles, MaxRows - n4)

NoResult == [op |-> "none"]

Init ==
    /\ Loaded({"str", "int"}, FALSE)
    /\ result = NoResult

-----------------------------------------------------------------------------
(* plot_distance_over_years                                                *)

\* The figures the call may return (one for each order sort_values may
\* give the filtered rows).
plot_distance_over_years(d4, d6, soc_mode, distance_type, soc1, soc2, start_year, end_year) ==
    LET df == SelectDf(d4, d6, soc_mode)
        soc1_colname == Soc1Colname(soc_mode)
        soc2_colname == Soc2Colname(soc_mode)
        soc_min == PyMin(soc1, soc2)
        soc_max == PyMax(soc1, soc2)
        pair == MaskRows(df, MaskAnd(ColEq(df, soc1_colname, soc_min),
                                     ColEq(df, soc2_colname, soc_max)))
        in_range == MaskRows(pair, MaskAnd(ColGe(pair, "year", start_year),
                                           ColLe(pair, "year", end_year)))
    IN  {LET ys == FloatColumn(filtered, DistanceCol(distance_type))
             min_value == SeriesMin(ys)
             max_value == SeriesMax(ys)
         IN  [x |-> Column(filtered, "year"),
              y |-> ys,
              hlines |-> <<[y |-> max_value, line_color |-> "green", label |-> "Max"],
                           [y |-> min_value, line_color |-> "red", label |-> "Min"]>>,
              title |-> [distance_type |-> distance_type, soc1 |-> soc1, soc2 |-> soc2,
                         start_year |-> start_year, end_year |-> end_year]] :
         filtered \in SortValues(in_range, "year", TRUE)}

\* The kind of the loaded code columns ("str" for two empty tables).
TableKind ==
    LET kinds == {df_soc4[i].SOC4_1_Code.kind : i \in 1..Len(df_soc4)}
                 \cup {df_soc6[i].SOC6_1_Code.kind : i \in 1..Len(df_soc6)}
    IN  IF "int" \in kinds THEN "int" ELSE "str"

\* The code arguments of a call: the codes as the tables hold them (what
\* the select boxes of app.py offer).
CodeArgs == {CodeCell(TableKind, i) : i \in CodeIdx}

DistanceOverYears ==
    /\ result = NoResult
    /\ \E soc_mode \in Modes, distance_type \in DistanceTypes,
       soc1 \in CodeArgs, soc2 \in CodeArgs, start_year \in Years, end_year \in Years :
        /\ \E fig \in plot_distance_over_years(df_soc4, df_soc6, soc_mode, distance_type,
                                               soc1, soc2, start_year, end_year) :
              result' = [op |-> "plot_distance_over_years",
                         args |-> [soc_mode |-> soc_mode, distance_type |-> distance_type,
                                   soc1 |-> soc1, soc2 |-> soc2,
                                   start_year |-> start_year, end_year |-> end_year],
                         out |-> fig]
        /\ UNCHANGED <<df_soc4, df_soc6>>

-----------------------------------------------------------------------------
(* get_top_bottom_k_table                                                  *)

\* Filter by year(s): the rows of the year range.
YearFilter(df, start_year, end_year) ==
    IF start_year = end_year THEN MaskRows(df, ColEq(df, "year", start_year))
    ELSE MaskRows(df, MaskAnd(ColGe(df, "year", start_year),
                              ColLe(df, "year", end_year)))

\* A slip: the pivot is looked for in the first code column only.
PivotFilterFirst(df, soc_mode, pivot_soc) ==
    IF Truthy(pivot_soc) THEN MaskRows(df, ColEq(df, Soc1Colname(soc_mode), pivot_soc))
    ELSE df

\* Filter by pivot SOC if provided: the rows naming the pivot in either
\* code column; every row when pivot_soc is None or empty.
PivotFilter(df, soc_mode, pivot_soc) ==
    IF Truthy(pivot_soc)
    THEN MaskRows(df, MaskOr(ColEq(df, Soc1Colname(soc_mode), pivot_soc),
                             ColEq(df, Soc2Colname(soc_mode), pivot_soc)))
    ELSE df

\* ascending = min_or_max == "Min"
Ascending(min_or_max) == min_or_max = "Min"

\* Columns to return.
TopkCols(soc_mode, distance_type) ==
    {"year", Soc1Colname(soc_mode), Soc1TitleCol(soc_mode),
     Soc2Colname(soc_mode), Soc2TitleCol(soc_mode), DistanceCol(distance_type)}

\* The rows the ranking sorts.
Candidates(d4, d6, soc_mode, start_year, end_year, pivot_soc) ==
    PivotFilter(YearFilter(SelectDf(d4, d6, soc_mode), start_year, end_year),
                soc_mode, pivot_soc)

\* The frames the call may return (one for each order sort_values may give
\* the candidates).
get_top_bottom_k_table(d4, d6, soc_mode, distance_type, start_year, end_year, k, min_or_max, pivot_soc) ==
    LET filtered == Candidates(d4, d6, soc_mode, start_year, end_year, pivot_soc)
    IN  {Project(DfHead(sorted_df, k), TopkCols(soc_mode, distance_type)) :
            sorted_df \in SortValues(filtered, DistanceCol(distance_type),
                                     Ascending(min_or_max))}

Directions == {"Min", "Max"}

\* The pivot arguments of a call: None, the empty string, a code.
PivotArgs == {None, Str("")} \cup CodeArgs

\* typed is the text of the "Pivot SOC" box when the call comes from Tab 3.
TopkResult(via, typed, soc_mode, distance_type, start_year, end_year, k, min_or_max, pivot_soc, table) ==
    [op |-> "get_top_bottom_k_table",
     via |-> via,
     typed |-> typed,
     args |-> [soc_mode |-> soc_mode, distance_type |-> distance_type,
               start_year |-> start_year, end_year |-> end_year, k |-> k,
               min_or_max |-> min_or_max, pivot_soc |-> pivot_soc],
     out |-> table]

TopBottomK ==
    /\ result = NoResult
    /\ \E soc_mode \in Modes, distance_type \in DistanceTypes,
       start_year \in Years, end_year \in Years, k \in (-1)..MaxK,
       min_or_max \in Directions, pivot_soc \in PivotArgs :
        /\ \E table \in get_top_bottom_k_table(df_soc4, df_soc6, soc_mode, distance_type,
                                               start_year, end_year, k, min_or_max, pivot_soc) :
              result' = TopkResult("call", "", soc_mode, distance_type, start_year,
                                   end_year, k, min_or_max, pivot_soc, table)
        /\ UNCHANGED <<df_soc4, df_soc6>>

\* What the user may type into the "Pivot SOC (Optional)" box.
RawPivotTexts == {"", "  ", "15", " 17 ", "99"}

\* str.strip() on those texts.
Strip(t) ==
    CASE t = "" -> ""
      [] t = "  " -> ""
      [] t = "15" -> "15"
      [] t = " 17 " -> "17"
      [] t = "99" -> "99"

\* pivot_soc_input = pivot_soc.strip() if pivot_soc else None
PivotSocInput(pivot_soc) == IF pivot_soc # "" THEN Str(Strip(pivot_soc)) ELSE None

\* The years the range sliders offer: from the first to the last year of
\* df_soc4 (none for an empty df_soc4, whose min() is no int).
SliderYears ==
    {y \in Years : /\ \E i \in 1..Len(df_soc4) : df_soc4[i].year <= y
                   /\ \E i \in 1..Len(df_soc4) : df_soc4[i].year >= y}

\* Tab 3 of app.py: the widgets' values, then "Generate Table".  The range
\* slider gives start_year <= end_year, the K slider 1 .. 25.  The table
\* is then shown and offered as CSV, which changes nothing here.
Tab3GenerateTable ==
    /\ result = NoResult
    /\ \E soc_mode \in Modes, distance_type \in DistanceTypes,
       start_year \in SliderYears, end_year \in SliderYears, k \in 1..MaxK,
       min_or_max \in Directions, pivot_soc \in RawPivotTexts :
        /\ start_year <= end_year
        /\ k <= KSliderMax
        /\ LET pivot_soc_input == PivotSocInput(pivot_soc)
           IN  \E table \in get_top_bottom_k_table(df_soc4, df_soc6, soc_mode, distance_type,
                                                   start_year, end_year, k, min_or_max,
                                                   pivot_soc_input) :
                  result' = TopkResult("tab3", pivot_soc, soc_mode, distance_type,
                                       start_year, end_year, k, min_or_max,
                                       pivot_soc_input, table)
        /\ UNCHANGED <<df_soc4, df_soc6>>

-----------------------------------------------------------------------------
(* plot_average_distance_per_year                                          *)

RECURSIVE SumColumn(_, _)
SumColumn(df, col) ==
    IF Len(df) = 0 THEN 0 ELSE df[1][col] + SumColumn(Tail(df), col)

\* The elements of a set of ints as an ascending sequence.
RECURSIVE Ascend(_)
Ascend(S) ==
    IF S = {} THEN <<>>
    ELSE LET m == CHOOSE x \in S : \A y \in S : x <= y
         IN  <<m>> \o Ascend(S \ {m})

\* A slip: the group's sum in place of its mean.
GroupbyYearSum(filtered, col) ==
    LET keys == Ascend({filtered[i].year : i \in 1..Len(filtered)})
        Group(y) == MaskRows(filtered, ColEq(filtered, "year", y))
    IN  [i \in 1..Len(keys) |->
            [year |-> keys[i], mean |-> Float(SumColumn(Group(keys[i]), col), 1)]]

\* filtered.groupby("year")[col].mean().reset_index(): one row for each year
\* that has rows, the groups in ascending key order, the value the mean of
\* the group's column.
GroupbyYearMean(filtered, col) ==
    LET keys == Ascend({filtered[i].year : i \in 1..Len(filtered)})
        Group(y) == MaskRows(filtered, ColEq(filtered, "year", y))
    IN  [i \in 1..Len(keys) |->
            [year |-> keys[i],
             mean |-> Float(SumColumn(Group(keys[i]), col), Len(Group(keys[i])))]]

\* The figures the call may return.
plot_average_distance_per_year(d4, d6, soc_mode, distance_type, start_year, end_year) ==
    LET df == SelectDf(d4, d6, soc_mode)
        filtered == MaskRows(df, MaskAnd(ColGe(df, "year", start_year),
                                         ColLe(df, "year", end_year)))
    IN  {LET means == Column(avg_df, "mean")
             y_min == SeriesMin(means)
             y_max == SeriesMax(means)
         IN  [x |-> Column(avg_df, "year"),
              y |-> means,
              hlines |-> <<[y |-> y_max, line_color |-> "green", label |-> "Max"],
                           [y |-> y_min, line_color |-> "red", label |-> "Min"]>>,
              title |-> [distance_type |-> distance_type,
                         start_year |-> start_year, end_year |-> end_year]] :
         avg_df \in SortValues(GroupbyYearMean(filtered, DistanceCol(distance_type)),
                               "year", TRUE)}

AverageDistancePerYear ==
    /\ result = NoResult
    /\ \E soc_mode \in Modes, distance_type \in DistanceTypes,
       start_year \in Years, end_year \in Years :
        /\ \E fig \in plot_average_distance_per_year(df_soc4, df_soc6, soc_mode,
                                                     distance_type, start_year, end_year) :
              result' = [op |-> "plot_average_distance_per_year",
                         args |-> [soc_mode |-> soc_mode, distance_type |-> distance_type,
                                   start_year |-> start_year, end_year |-> end_year],
                         out |-> fig]
        /\ UNCHANGED <<df_soc4, df_soc6>>

-----------------------------------------------------------------------------
(* plot_distance_heatmap                                                   *)

\* str(v) of a code cell: a str of the same printed form.
AsStr(v) == [kind |-> "str", text |-> v.text]

\* frame[col] = frame[col].astype(str)
AstypeStrColumn(frame, col) ==
    [i \in 1..Len(frame) |-> [frame[i] EXCEPT ![col] = AsStr(frame[i][col])]]

\* A slip: the code columns of the loaded table are reassigned.
HeatmapAssignsLoaded == "df_soc4"

\* The frame whose code columns the function reassigns: filtered, which is
\* a copy (.copy()) of the rows of the year.
HeatmapAssigns == "filtered"

\* The call's effect: the figure it returns and the frame df_soc4 names
\* after it.
plot_distance_heatmap(d4, distance_type, year) ==
    LET soc1_col == "SOC4_1_Code"
        soc2_col == "SOC4_2_Code"
        Converted(frame) == AstypeStrColumn(AstypeStrColumn(frame, soc1_col), soc2_col)
        copy == MaskRows(d4, ColEq(d4, "year", year))
        filtered == IF HeatmapAssigns = "filtered" THEN Converted(copy) ELSE copy
        after == IF HeatmapAssigns = "filtered" THEN d4 ELSE Converted(d4)
    IN  [fig |-> [x |-> Column(filtered, soc2_col),
                  y |-> Column(filtered, soc1_col),
                  z |-> FloatColumn(filtered, DistanceCol(distance_type)),
                  zmin |-> Float(0, 1),
                  title |-> [distance_type |-> distance_type, year |-> year]],
         df_soc4 |-> after]

DistanceHeatmap ==
    /\ result = NoResult
    /\ \E distance_type \in DistanceTypes, year \in Years :
        LET call == plot_distance_heatmap(df_soc4, distance_type, year)
        IN  /\ result' = [op |-> "plot_distance_heatmap",
                          args |-> [distance_type |-> distance_type, year |-> year],
                          out |-> call.fig]
            /\ df_soc4' = call.df_soc4
            /\ UNCHANGED df_soc6

-----------------------------------------------------------------------------
(* lookup_title_from_code, lookup_code_from_title                          *)

\* Series.unique(): the distinct values in order of first appearance.
RECURSIVE Unique(_)
Unique(s) ==
    IF Len(s) = 0 THEN <<>>
    ELSE LET init == Unique(SubSeq(s, 1, Len(s) - 1))
             last == s[Len(s)]
         IN  IF \E i \in 1..Len(init) : init[i] = last THEN init ELSE Append(init, last)

NotFound == Str("Not found")

\* A slip: the last of the distinct titles in place of the first.
lookup_title_from_code_last(df, code_col, title_col, code) ==
    LET res == Unique(Column(MaskRows(df, ColEq(df, code_col, code)), title_col))
    IN  IF Len(res) > 0 THEN res[Len(res)] ELSE NotFound

lookup_title_from_code(df, code_col, title_col, code) ==
    LET res == Unique(Column(MaskRows(df, ColEq(df, code_col, code)), title_col))
    IN  IF Len(res) > 0 THEN res[1] ELSE NotFound

lookup_code_from_title(df, code_col, title_col, title) ==
    LET res == Unique(Column(MaskRows(df, ColEq(df, title_col, title)), code_col))
    IN  IF Len(res) > 0 THEN res[1] ELSE NotFound

\* The code and title columns of a table: the caller picks one of each.
CodeCols(soc_mode) == {Soc1Colname(soc_mode), Soc2Colname(soc_mode)}
TitleCols(soc_mode) == {Soc1TitleCol(soc_mode), Soc2TitleCol(soc_mode)}

\* The keys looked up: the codes, a code typed as text and a code no table
\* holds; the titles, a title in another case and a title no table holds.
CodeKeys == CodeArgs \cup {Str("15"), Str("99")}
TitleKeys == {Str(TitleTexts[i]) : i \in TitleIdx} \cup {Str("computer"), Str("Nurse")}

LookupResult(op, soc_mode, code_col, title_col, key, value) ==
    [op |-> op,
     args |-> [soc_mode |-> soc_mode, code_col |-> code_col,
               title_col |-> title_col, key |-> key],
     out |-> value]

LookupTitleFromCode ==
    /\ result = NoResult
    /\ \E soc_mode \in Modes, code \in CodeKeys :
        \E code_col \in CodeCols(soc_mode), title_col \in TitleCols(soc_mode) :
            /\ result' = LookupResult("lookup_title_from_code", soc_mode, code_col, title_col,
                              code,
                              lookup_title_from_code(SelectDf(df_soc4, df_soc6, soc_mode),
                                                     code_col, title_col, code))
            /\ UNCHANGED <<df_soc4, df_soc6>>

LookupCodeFromTitle ==
    /\ result = NoResult
    /\ \E soc_mode \in Modes, title \in TitleKeys :
        \E code_col \in CodeCols(soc_mode), title_col \in TitleCols(soc_mode) :
            /\ result' = LookupResult("lookup_code_from_title", soc_mode, code_col, title_col,
                              title,
                              lookup_code_from_title(SelectDf(df_soc4, df_soc6, soc_mode),
                                                     code_col, title_col, title))
            /\ UNCHANGED <<df_soc4, df_soc6>>

-----------------------------------------------------------------------------
(* Streamlit runs app.py from the top on every interaction: what the last  *)
(* run computed is gone, the cached tables stay.                           *)

Rerun ==
    /\ result # NoResult
    /\ result' = NoResult
    /\ UNCHANGED <<df_soc4, df_soc6>>

NextTS == DistanceOverYears
SpecTS == Init /\ [][NextTS]_vars

\* The ranking, over tables of strings (the kind the titles and the typed
\* pivot have).
InitStr ==
    /\ Loaded({"str"}, FALSE)
    /\ result = NoResult

NextTopK == TopBottomK \/ Tab3GenerateTable
SpecTopK == InitStr /\ [][NextTopK]_vars

NextAvg == AverageDistancePerYear
SpecAvg == Init /\ [][NextAvg]_vars

\* The lookups, over tables whose rows carry any titles.
InitTitles ==
    /\ Loaded({"str", "int"}, TRUE)
    /\ result = NoResult

NextLookup == LookupTitleFromCode \/ LookupCodeFromTitle
SpecLookup == InitTitles /\ [][NextLookup]_vars

\* Every call the dashboard makes, in any order.
Next ==
    \/ DistanceOverYears
    \/ TopBottomK
    \/ Tab3GenerateTable
    \/ AverageDistancePerYear
    \/ DistanceHeatmap
    \/ LookupTitleFromCode
    \/ LookupCodeFromTitle
    \/ Rerun
Spec == Init /\ [][Next]_vars

-----------------------------------------------------------------------------
(* Properties of plot_distance_over_years.                                 *)

IsTimeSeries == result.op = "plot_distance_over_years"

\* What a line figure shows: the (x, y) sequence and the two reference
\* values.
DataOf(fig) ==
    [x |-> fig.x, y |-> fig.y, max |-> fig.hlines[1].y, min |-> fig.hlines[2].y]

\* The largest and the smallest of a non-empty sequence of floats.
IsLeast(m, s) ==
    /\ \E i \in 1..Len(s) : s[i] = m
    /\ \A i \in 1..Len(s) : ~FloatLess(s[i], m)
IsGreatest(m, s) ==
    /\ \E i \in 1..Len(s) : s[i] = m
    /\ \A i \in 1..Len(s) : ~FloatLess(m, s[i])

\* C1: the call with the two codes exchanged returns the same (year,
\* distance) sequence and the same min and max as the call made.
C1_ArgumentOrder ==
    IsTimeSeries =>
        LET a == result.args
            swapped == plot_distance_over_years(df_soc4, df_soc6, a.soc_mode,
                           a.distance_type, a.soc2, a.soc1, a.start_year, a.end_year)
        IN  {DataOf(f) : f \in swapped} = {DataOf(result.out)}

\* C1 witness: a pair given larger code first, with rows in the result.
C1_Witness ==
    /\ IsTimeSeries
    /\ PyLess(result.args.soc2, result.args.soc1)
    /\ Len(result.out.x) = 2

\* C9: the result holds exactly the rows of the canonical pair within the
\* year range, by ascending year, and the min and max of a non-empty result
\* are the smallest and the largest distance of the sequence.
C9_ExactRows ==
    IsTimeSeries =>
        LET a == result.args
            out == result.out
            df == IF a.soc_mode = "SOC4" THEN df_soc4 ELSE df_soc6
            c1 == IF a.soc_mode = "SOC4" THEN "SOC4_1_Code" ELSE "SOC6_1_Code"
            c2 == IF a.soc_mode = "SOC4" THEN "SOC4_2_Code" ELSE "SOC6_2_Code"
            d == IF a.distance_type = "Euclidean" THEN "Euclidean_Distance"
                 ELSE "Cosine_Distance"
            lo == IF Rank(a.soc1.text) <= Rank(a.soc2.text) THEN a.soc1 ELSE a.soc2
            hi == IF Rank(a.soc1.text) <= Rank(a.soc2.text) THEN a.soc2 ELSE a.soc1
            rows == {i \in 1..Len(df) :
                        /\ df[i][c1] = lo /\ df[i][c2] = hi
                        /\ a.start_year <= df[i].year /\ df[i].year <= a.end_year}
            Shows(j, i) == out.x[j] = df[i].year /\ out.y[j] = Float(df[i][d], 1)
        IN  /\ Len(out.x) = Cardinality(rows)
            /\ Len(out.y) = Len(out.x)
            /\ \A i \in rows : \E j \in 1..Len(out.x) : Shows(j, i)
            /\ \A j \in 1..Len(out.x) : \E i \in rows : Shows(j, i)
            /\ \A j \in 1..(Len(out.x) - 1) : out.x[j] <= out.x[j + 1]
            /\ Len(out.x) > 0 =>
                  /\ IsLeast(out.hlines[2].y, out.y)
                  /\ IsGreatest(out.hlines[1].y, out.y)

\* C9 witness: the spec's example.  The table holds the pair (15, 17) with
\* the 2019 row before the 2018 row; queried as (17, 15) over [2018, 2019]
\* the result is [(2018, 0), (2019, 1)], min 0, max 1.
C9_Witness ==
    /\ IsTimeSeries
    /\ result.args.soc_mode = "SOC4"
    /\ result.args.distance_type = "Euclidean"
    /\ result.args.soc1 = Str("17") /\ result.args.soc2 = Str("15")
    /\ result.args.start_year = 2018 /\ result.args.end_year = 2019
    /\ Len(df_soc4) = 2 /\ df_soc4[1].year = 2019 /\ df_soc4[2].year = 2018
    /\ result.out.x = <<2018, 2019>>
    /\ result.out.y = <<Float(0, 1), Float(1, 1)>>
    /\ result.out.hlines[2].y = Float(0, 1)
    /\ result.out.hlines[1].y = Float(1, 1)

-----------------------------------------------------------------------------
(* Properties of the empty result.                                         *)

IsAverage == result.op = "plot_average_distance_per_year"

\* C6: when no row matches, the time series and the yearly aggregate hand
\* no NaN to the renderer as the min or max reference value.
C6_NoNaNReference ==
    ((IsTimeSeries \/ IsAverage) /\ Len(result.out.x) = 0) =>
        \A h \in 1..Len(result.out.hlines) : ~result.out.hlines[h].y.nan

-----------------------------------------------------------------------------
(* Properties of get_top_bottom_k_table.                                   *)

IsTopk == result.op = "get_top_bottom_k_table"

\* The table, the columns and the pivot of the ranking made.  From Tab 3
\* the pivot is the typed text without its surrounding blanks, and it is
\* supplied when that text is not empty.
TopkDf == IF result.args.soc_mode = "SOC4" THEN df_soc4 ELSE df_soc6
TopkC1 == IF result.args.soc_mode = "SOC4" THEN "SOC4_1_Code" ELSE "SOC6_1_Code"
TopkC2 == IF result.args.soc_mode = "SOC4" THEN "SOC4_2_Code" ELSE "SOC6_2_Code"
TopkD ==
    IF result.args.distance_type = "Euclidean" THEN "Euclidean_Distance"
    ELSE "Cosine_Distance"
TopkPivot ==
    IF result.via = "tab3" THEN Str(Strip(result.typed)) ELSE result.args.pivot_soc
TopkPivotSupplied ==
    IF result.via = "tab3" THEN Strip(result.typed) # ""
    ELSE result.args.pivot_soc # None /\ result.args.pivot_soc # Str("")

\* The positions of the rows matching the year range and the pivot.
TopkMatching ==
    {i \in 1..Len(TopkDf) :
        /\ result.args.start_year <= TopkDf[i].year
        /\ TopkDf[i].year <= result.args.end_year
        /\ TopkPivotSupplied =>
              (TopkDf[i][TopkC1] = TopkPivot \/ TopkDf[i][TopkC2] = TopkPivot)}

\* Row j of the output is row i of the table.
TopkShows(j, i) ==
    \A c \in DOMAIN result.out[j] : result.out[j][c] = TopkDf[i][c]

\* Row i ranks no later than row j in the direction asked for.
RanksNoLater(di, dj) ==
    IF result.args.min_or_max = "Min" THEN di <= dj ELSE di >= dj

\* C2: for k >= 1 the output has min(k, matching rows) rows, sorted by the
\* metric in the direction asked for; with fewer than k matching rows it
\* holds them all.
C2_LengthAndOrder ==
    (IsTopk /\ result.args.k >= 1) =>
        LET out == result.out
            n == Cardinality(TopkMatching)
        IN  /\ Len(out) = IF result.args.k < n THEN result.args.k ELSE n
            /\ \A j \in 1..(Len(out) - 1) : RanksNoLater(out[j][TopkD], out[j + 1][TopkD])
            /\ n < result.args.k =>
                  \A i \in TopkMatching : \E j \in 1..Len(out) : TopkShows(j, i)

\* C2 witness: two matching rows stored smallest first, ranked Max with
\* k = 2: the output holds both, largest first.
C2_Witness ==
    /\ IsTopk
    /\ result.args.k = 2 /\ result.args.min_or_max = "Max"
    /\ Cardinality(TopkMatching) = 2
    /\ Len(TopkDf) = 2 /\ TopkDf[1][TopkD] < TopkDf[2][TopkD]
    /\ Len(result.out) = 2
    /\ result.out[1][TopkD] > result.out[2][TopkD]

\* C3: for k <= 0 or an inverted year range the output is empty.
C3_EmptyForInvalid ==
    (IsTopk /\ (result.args.k <= 0 \/ result.args.start_year > result.args.end_year)) =>
        Len(result.out) = 0

\* What a stable sort returns: equal keys keep their row order.  With
\* ascending=False pandas reverses before and after the sort, so equal keys
\* keep their row order in a descending sort too.
StableSort(df, col, ascending) ==
    LET n == Len(df)
        Before(i, j) ==
            \/ IF ascending THEN df[i][col] < df[j][col]
               ELSE df[i][col] > df[j][col]
            \/ df[i][col] = df[j][col] /\ i < j
        p == CHOOSE q \in Perms(n) :
                \A i, j \in 1..n : i < j => Before(q[i], q[j])
    IN  Reorder(df, p)

\* C4: rows of equal metric value come out in table row order, so the
\* output is the first k rows of the stable sort of the matching rows.
C4_StableTies ==
    (IsTopk /\ result.args.k >= 1) =>
        LET Matches(r) ==
                /\ result.args.start_year <= r.year /\ r.year <= result.args.end_year
                /\ TopkPivotSupplied => (r[TopkC1] = TopkPivot \/ r[TopkC2] = TopkPivot)
            ranked == StableSort(SelectSeq(TopkDf, Matches), TopkD,
                                 result.args.min_or_max = "Min")
            n == Len(ranked)
            k == result.args.k
            kept == IF k >= 0 THEN (IF k < n THEN k ELSE n)
                    ELSE (IF n + k > 0 THEN n + k ELSE 0)
        IN  /\ Len(result.out) = kept
            /\ \A j \in 1..Len(result.out) :
                  \A c \in DOMAIN result.out[j] : result.out[j][c] = ranked[j][c]

\* C10: the output rows are matching rows (rows of the year range that name
\* the pivot when one is supplied, any row of the year range otherwise), as
\* many as the truncation leaves, and no matching row left out ranks before
\* a row of the output.
C10_PivotCandidates ==
    IsTopk =>
        LET out == result.out
            n == Cardinality(TopkMatching)
            k == result.args.k
            kept == IF k >= 0 THEN (IF k < n THEN k ELSE n)
                    ELSE (IF n + k > 0 THEN n + k ELSE 0)
        IN  /\ Len(out) = kept
            /\ \A j \in 1..Len(out) : \E i \in TopkMatching : TopkShows(j, i)
            /\ \A j \in 1..Len(out) :
                  TopkPivotSupplied =>
                      (out[j][TopkC1] = TopkPivot \/ out[j][TopkC2] = TopkPivot)
            /\ \A i \in TopkMatching :
                  (\A j \in 1..Len(out) : ~TopkShows(j, i)) =>
                      \A j \in 1..Len(out) : RanksNoLater(out[j][TopkD], TopkDf[i][TopkD])

\* C10 witness: a pivot typed with blanks around it into Tab 3, found in
\* the second code column only of the row returned, while the table holds a
\* row without the pivot.
C10_Witness ==
    /\ IsTopk
    /\ result.via = "tab3" /\ result.typed = " 17 "
    /\ Len(result.out) = 1
    /\ result.out[1][TopkC1] = Str("15") /\ result.out[1][TopkC2] = Str("17")
    /\ \E i \in 1..Len(TopkDf) :
          /\ TopkDf[i][TopkC2] = Str("15")
          /\ result.args.start_year <= TopkDf[i].year
          /\ TopkDf[i].year <= result.args.end_year

\* C10 witness of the absent pivot: blanks typed into Tab 3, every row of
\* the year range returned.
C10_BlankWitness ==
    /\ IsTopk
    /\ result.via = "tab3" /\ result.typed = "  "
    /\ Len(result.out) = 2

-----------------------------------------------------------------------------
(* Properties of plot_average_distance_per_year.                           *)

\* The sum of the int column col over the rows of df at the positions S.
RECURSIVE SumAt(_, _, _)
SumAt(df, col, S) ==
    IF S = {} THEN 0
    ELSE LET i == CHOOSE x \in S : TRUE
         IN  df[i][col] + SumAt(df, col, S \ {i})

\* C5: the output has one entry for each year with a row in the range and
\* no other, by ascending year; an entry's value is the arithmetic mean of
\* the metric over the rows of its year; the min and max of a non-empty
\* output are the smallest and the largest of the yearly means.
C5_YearlyMeans ==
    IsAverage =>
        LET a == result.args
            out == result.out
            df == IF a.soc_mode = "SOC4" THEN df_soc4 ELSE df_soc6
            d == IF a.distance_type = "Euclidean" THEN "Euclidean_Distance"
                 ELSE "Cosine_Distance"
            RowsOf(y) == {i \in 1..Len(df) : df[i].year = y}
            years == {y \in a.start_year..a.end_year : RowsOf(y) # {}}
        IN  /\ Len(out.x) = Cardinality(years)
            /\ Len(out.y) = Len(out.x)
            /\ \A j \in 1..Len(out.x) : out.x[j] \in years
            /\ \A j \in 1..(Len(out.x) - 1) : out.x[j] < out.x[j + 1]
            /\ \A j \in 1..Len(out.x) :
                  /\ ~out.y[j].nan
                  /\ out.y[j].den > 0
                  /\ out.y[j].num * Cardinality(RowsOf(out.x[j]))
                        = SumAt(df, d, RowsOf(out.x[j])) * out.y[j].den
            /\ Len(out.x) > 0 =>
                  /\ IsLeast(out.hlines[2].y, out.y)
                  /\ IsGreatest(out.hlines[1].y, out.y)

\* C5 witness: a table with rows of 2019 only, of distances 1 and 0; over
\* [2018, 2019] the output is the one entry (2019, 1/2).
C5_Witness ==
    /\ IsAverage
    /\ result.args.start_year = 2018 /\ result.args.end_year = 2019
    /\ result.out.x = <<2019>>
    /\ result.out.y = <<Float(1, 2)>>

-----------------------------------------------------------------------------
(* Properties of the lookups.                                              *)

IsTitleFromCode == result.op = "lookup_title_from_code"
IsCodeFromTitle == result.op = "lookup_code_from_title"

\* C7: a lookup returns "Not found" when no row holds the key in the column
\* searched, and otherwise the other column's value of the first such row.
C7_FirstMatchOrSentinel ==
    (IsTitleFromCode \/ IsCodeFromTitle) =>
        LET a == result.args
            df == IF a.soc_mode = "SOC4" THEN df_soc4 ELSE df_soc6
            searched == IF IsTitleFromCode THEN a.code_col ELSE a.title_col
            returned == IF IsTitleFromCode THEN a.title_col ELSE a.code_col
            hits == {i \in 1..Len(df) : df[i][searched] = a.key}
            first == CHOOSE i \in hits : \A h \in hits : i <= h
        IN  IF hits = {} THEN result.out = Str("Not found")
            ELSE result.out = df[first][returned]

\* C7 witness: a code that two rows give two titles; the title of the
\* first row is returned.
C7_Witness ==
    /\ IsTitleFromCode
    /\ result.args.soc_mode = "SOC4"
    /\ Len(df_soc4) = 2
    /\ df_soc4[1][result.args.code_col] = result.args.key
    /\ df_soc4[2][result.args.code_col] = result.args.key
    /\ df_soc4[1][result.args.title_col] # df_soc4[2][result.args.title_col]
    /\ result.out = df_soc4[1][result.args.title_col]

\* C7 witness of the sentinel: a title looked up in another case.
C7_CaseWitness ==
    /\ IsCodeFromTitle
    /\ result.args.key = Str("computer")
    /\ \E i \in 1..Len(df_soc4) : df_soc4[i][result.args.title_col] = Str("Computer")
    /\ result.args.soc_mode = "SOC4"
    /\ result.out = Str("Not found")

-----------------------------------------------------------------------------
(* The loaded tables stay as loaded.                                       *)

\* C8: no call changes a loaded table: rows, row order and cell values stay.
C8_TablesUnchanged == [][df_soc4' = df_soc4 /\ df_soc6' = df_soc6]_vars

\* C8 witness: a heatmap of a table of int codes; the figure's axes hold
\* strings, the table still holds the ints.
C8_Witness ==
    /\ result.op = "plot_distance_heatmap"
    /\ Len(result.out.x) > 0
    /\ result.out.x[1].kind = "str" /\ result.out.y[1].kind = "str"
    /\ \A i \in 1..Len(df_soc4) :
          df_soc4[i].SOC4_1_Code.kind = "int" /\ df_soc4[i].SOC4_2_Code.kind = "int"

====
